---- MODULE Spec2Model ----
(***************************************************************************)
(* State-machine model of the order / kitchen / payment / third-party      *)
(* order logic of the FaMI restaurant system.  The state is the relational *)
(* database; every action is one request handler or service call, taken    *)
(* with its whole database transaction (writes made inside an              *)
(* `transaction.atomic` block that is left by an exception are rolled      *)
(* back, writes made before a normal `return` are committed).              *)
(*                                                                         *)
(* Money is counted in whole currency units; all prices are multiples of   *)
(* 100 and all percentages are integers, so the Decimal arithmetic of the  *)
(* code is exact integer arithmetic here.                                  *)
(* Not modelled: line notes, timestamps, table status, WebSocket           *)
(* notifications (assumed to be delivered without raising).                *)
(***************************************************************************)
EXTENDS Integers, Sequences, FiniteSets, TLC

\* ---- bounds of the model ------------------------------------------------
MaxOrders == 2
MaxLines == 2
MaxQty == 2
MaxHistory == 2
MaxStock == 1
MaxWorkers == 2

\* ---- fixed data -----------------------------------------------------------
Tables == {"T1"}
NoTable == "NoTable"
NoExt == "NoExt"
Users == {"cashier", "chef"}
\* menu items, identified by SKU; "A" has a recipe, "B" has none
Items == {"A", "B"}
UnknownSku == "NOPE"
Prices == {100, 200}
NoPricing == 0
PartnerRefs == {"P1"}

\* sales/models.py Order.Status
PENDING == "Pending"
COOKING == "Cooking"
PAID == "Paid"
CANCELLED == "Cancelled"
OrderStatusChoices == {PENDING, COOKING, PAID, CANCELLED}
\* kitchen/models.py StatusHistory.OrderStatus
READY == "Ready"
SERVED == "Served"
KitchenStatusChoices == {PENDING, COOKING, READY, SERVED, CANCELLED}
\* menu/models.py MenuItem.ItemStatus
ACTIVE == "ACTIVE"
INACTIVE == "INACTIVE"
OUT_OF_STOCK == "OUT_OF_STOCK"
ItemStatusChoices == {ACTIVE, INACTIVE, OUT_OF_STOCK}

VARIABLES
    orders,        \* Order rows: sequence, index = primary key
    lines,         \* OrderDetail rows: function from primary key to row
    nextLine,      \* next OrderDetail primary key (keys are never reused)
    history,       \* StatusHistory rows, oldest first
    nextHist,      \* next StatusHistory primary key
    transactions,  \* Transaction rows, oldest first
    invoices,      \* Invoice rows (one-to-one with Order)
    itemPrice,     \* MenuItem.price per item
    pricing,       \* selling_price of the current Pricing row per item, or NoPricing
    itemStatus,    \* MenuItem.status per item
    stock,         \* InventoryItem.quantity_on_hand of the ingredient of item "A"
    isOpen,        \* RESTAURANT_STATUS setting is OPEN (or missing)
    result,        \* what the last handler call returned
    tickets,       \* StockTakeTicket rows with their StockTakeDetail row, oldest first
    apiInFlight,   \* create-order requests between their idempotency check and their transaction
    takeInFlight,  \* stock-take submissions between their Draft check and their writes
    deductInFlight,\* deductions between reading and saving the InventoryItem
    cartInFlight,  \* add_to_cart requests that found no Pending order and have not created one yet
    stock0,        \* quantity_on_hand in the initial state
    invLog,        \* the completed writes of quantity_on_hand, in order of completion
    sent           \* notifications handed to NotificationService, oldest first

vars == <<orders, lines, nextLine, history, nextHist, transactions, invoices,
          itemPrice, pricing, itemStatus, stock, isOpen, result,
          tickets, apiInFlight, takeInFlight, deductInFlight, cartInFlight,
          stock0, invLog, sent>>

dbSales == <<orders, lines, nextLine, history, nextHist, transactions, invoices>>
dbMenu == <<itemPrice, pricing, itemStatus, stock, isOpen>>
dbInv == <<tickets, stock0, invLog>>
inflight == <<apiInFlight, takeInFlight, deductInFlight, cartInFlight>>

\* ---- helpers ----------------------------------------------------------------
OrderIds == 1..Len(orders)
LineIds == DOMAIN lines
Range(s) == {s[k] : k \in DOMAIN s}

RECURSIVE SumPrices(_, _)
SumPrices(ls, S) ==
    IF S = {} THEN 0
    ELSE LET d == CHOOSE x \in S : TRUE
         IN ls[d].total_price + SumPrices(ls, S \ {d})

DetailsOf(ls, o) == {d \in DOMAIN ls : ls[d].order = o}

\* sum of total_price over the order's lines whose status is not Cancelled
TotalNonCancelled(ls, o) ==
    SumPrices(ls, {d \in DetailsOf(ls, o) : ls[d].status # CANCELLED})

\* Order.update_total: sums total_price over ALL details of the order
UpdateTotalValue(ls, o) == SumPrices(ls, DetailsOf(ls, o))

\* MenuItem.get_current_price() with the fallback used by the callers:
\* pricing.selling_price if a Pricing row is in effect, else menu_item.price
CurrentPrice(i) == IF pricing[i] # NoPricing THEN pricing[i] ELSE itemPrice[i]

\* on_delete=CASCADE from OrderDetail to StatusHistory
RECURSIVE DropHistoryOf(_, _)
DropHistoryOf(h, d) ==
    IF h = <<>> THEN <<>>
    ELSE IF Head(h).detail = d THEN DropHistoryOf(Tail(h), d)
         ELSE <<Head(h)>> \o DropHistoryOf(Tail(h), d)

NewOrder(t, st, total, ext) ==
    [table |-> t, status |-> st, total_amount |-> total, external_id |-> ext]

NewLine(o, i, q, up, st) ==
    [order |-> o, item |-> i, quantity |-> q, unit_price |-> up,
     total_price |-> q * up, status |-> st]

\* the return value of a handler; id is the order a payment call was made on
Res(op, r) == [op |-> op, res |-> r, id |-> 0]
ResOn(op, r, o) == [op |-> op, res |-> r, id |-> o]

\* ---- initial state ------------------------------------------------------------
Init ==
    /\ orders = <<>>
    /\ lines = <<>>
    /\ nextLine = 1
    /\ history = <<>>
    /\ nextHist = 1
    /\ transactions = <<>>
    /\ invoices = {}
    /\ itemPrice = [i \in Items |-> 100]
    /\ pricing = [i \in Items |-> NoPricing]
    /\ itemStatus = [i \in Items |-> ACTIVE]
    /\ stock \in 0..MaxStock
    /\ isOpen \in BOOLEAN
    /\ result = Res("none", "none")
    /\ tickets = <<>>
    /\ apiInFlight = {}
    /\ takeInFlight = {}
    /\ deductInFlight = {}
    /\ cartInFlight = {}
    /\ stock0 = stock
    /\ invLog = <<>>
    /\ sent = <<>>

\* ---- POS cart ---------------------------------------------------------------------
PendingOrdersOf(t) == {o \in OrderIds : orders[o].table = t /\ orders[o].status = PENDING}

\* the mutated line increment: re-snapshots the price
IncrementLineRepriced(l, i) ==
    [l EXCEPT !.quantity = l.quantity + 1,
              !.unit_price = CurrentPrice(i),
              !.total_price = (l.quantity + 1) * CurrentPrice(i)]

\* add_to_cart, existing line: quantity += 1, total_price = quantity * unit_price
IncrementLine(l, i) ==
    [l EXCEPT !.quantity = l.quantity + 1,
              !.total_price = (l.quantity + 1) * l.unit_price]

\* sales/views.py add_to_cart (POST)
AddToCart(t, i) ==
    /\ UNCHANGED <<history, nextHist, transactions, invoices>>
    /\ UNCHANGED dbMenu
    /\ UNCHANGED <<dbInv, inflight, sent>>
    /\ IF itemStatus[i] = OUT_OF_STOCK
       THEN /\ UNCHANGED <<orders, lines, nextLine>>
            /\ result' = Res("add_to_cart", "out_of_stock")
       ELSE IF Cardinality(PendingOrdersOf(t)) > 1
       THEN \* Order.objects.get_or_create raises MultipleObjectsReturned
            /\ UNCHANGED <<orders, lines, nextLine>>
            /\ result' = Res("add_to_cart", "error")
       ELSE LET created == PendingOrdersOf(t) = {}
                o == IF created THEN Len(orders) + 1
                     ELSE CHOOSE x \in PendingOrdersOf(t) : TRUE
                ords == IF created THEN Append(orders, NewOrder(t, PENDING, 0, NoExt))
                        ELSE orders
                same == {d \in LineIds : lines[d].order = o /\ lines[d].item = i}
            IN  /\ created => Len(orders) < MaxOrders
                /\ IF Cardinality(same) > 1
                   THEN \* OrderDetail.objects.get_or_create raises; atomic block rolls back
                        /\ UNCHANGED <<orders, lines, nextLine>>
                        /\ result' = Res("add_to_cart", "error")
                   ELSE LET ls == IF same = {}
                                  THEN [d \in LineIds \cup {nextLine} |->
                                          IF d = nextLine
                                          THEN NewLine(o, i, 1, CurrentPrice(i), PENDING)
                                          ELSE lines[d]]
                                  ELSE LET d0 == CHOOSE d \in same : TRUE
                                       IN [lines EXCEPT ![d0] = IncrementLine(lines[d0], i)]
                        IN  /\ same = {} => nextLine <= MaxLines
                            /\ same # {} => \A d \in same : lines[d].quantity < MaxQty
                            /\ lines' = ls
                            /\ nextLine' = IF same = {} THEN nextLine + 1 ELSE nextLine
                            /\ orders' = [ords EXCEPT ![o].total_amount = UpdateTotalValue(ls, o)]
                            /\ result' = Res("add_to_cart", "ok")

\* add_to_cart up to the SELECT of Order.objects.get_or_create(table=table,
\* status=PENDING): with a Pending order the request runs on as AddToCart; with
\* none, the row is created by a later INSERT, and nothing locks the table's orders
AddToCartBegin(w, t, i) ==
    /\ \A f \in cartInFlight : f.worker # w
    /\ itemStatus[i] # OUT_OF_STOCK
    /\ PendingOrdersOf(t) = {}
    /\ UNCHANGED <<dbSales, dbMenu, dbInv, sent>>
    /\ UNCHANGED <<apiInFlight, takeInFlight, deductInFlight, result>>
    /\ cartInFlight' = cartInFlight \cup {[worker |-> w, table |-> t, item |-> i]}

\* add_to_cart from the INSERT of get_or_create to the commit: the new order,
\* its first line, update_total
AddToCartCommit(f) ==
    /\ f \in cartInFlight
    /\ Len(orders) < MaxOrders
    /\ nextLine <= MaxLines
    /\ UNCHANGED <<history, nextHist, transactions, invoices>>
    /\ UNCHANGED <<dbMenu, dbInv, sent>>
    /\ UNCHANGED <<apiInFlight, takeInFlight, deductInFlight>>
    /\ cartInFlight' = cartInFlight \ {f}
    /\ LET o == Len(orders) + 1
           ls == [d \in LineIds \cup {nextLine} |->
                    IF d = nextLine
                    THEN NewLine(o, f.item, 1, CurrentPrice(f.item), PENDING)
                    ELSE lines[d]]
       IN /\ lines' = ls
          /\ nextLine' = nextLine + 1
          /\ orders' = [Append(orders, NewOrder(f.table, PENDING, 0, NoExt))
                            EXCEPT ![o].total_amount = UpdateTotalValue(ls, o)]
    /\ result' = Res("add_to_cart", "ok")

\* sales/views.py remove_from_cart (POST)
RemoveFromCart(t, d) ==
    /\ UNCHANGED <<nextLine, nextHist, transactions, invoices>>
    /\ UNCHANGED dbMenu
    /\ UNCHANGED <<dbInv, inflight, sent>>
    /\ IF PendingOrdersOf(t) = {}
       THEN /\ UNCHANGED <<orders, lines, history>>
            /\ result' = Res("remove_from_cart", "not_found")
       ELSE IF Cardinality(PendingOrdersOf(t)) > 1
       THEN \* get_object_or_404 lets MultipleObjectsReturned through
            /\ UNCHANGED <<orders, lines, history>>
            /\ result' = Res("remove_from_cart", "error")
       ELSE LET o == CHOOSE x \in PendingOrdersOf(t) : TRUE
            IN IF ~(d \in LineIds /\ lines[d].order = o)
               THEN /\ UNCHANGED <<orders, lines, history>>
                    /\ result' = Res("remove_from_cart", "not_found")
               ELSE LET ls == IF lines[d].quantity > 1
                              THEN [lines EXCEPT ![d].quantity = @ - 1,
                                                 ![d].total_price = (lines[d].quantity - 1) * lines[d].unit_price]
                              ELSE [x \in LineIds \ {d} |-> lines[x]]
                    IN  /\ lines' = ls
                        /\ history' = IF lines[d].quantity > 1 THEN history
                                      ELSE DropHistoryOf(history, d)
                        /\ orders' = [orders EXCEPT ![o].total_amount = UpdateTotalValue(ls, o)]
                        /\ result' = Res("remove_from_cart", "ok")

\* the mutated emptiness check: every order counts as having lines
HasDetailsAlways(ls, o) == TRUE

\* submit_order: order.details.exists()
HasDetails(ls, o) == DetailsOf(ls, o) # {}

\* sales/views.py submit_order (POST).  `.first()` follows Meta.ordering (-created_at);
\* created_at is not modelled, so with several Pending orders any of them may be first
SubmitOrder(t) ==
    /\ UNCHANGED <<lines, nextLine, history, nextHist, transactions, invoices>>
    /\ UNCHANGED dbMenu
    /\ UNCHANGED <<dbInv, inflight, sent>>
    /\ IF PendingOrdersOf(t) = {}
       THEN /\ UNCHANGED orders
            /\ result' = Res("submit_order",
                   IF \E o \in OrderIds : orders[o].table = t /\ orders[o].status = COOKING
                   THEN "already_submitted" ELSE "no_pending_order")
       ELSE \E o \in PendingOrdersOf(t) :
               IF ~HasDetails(lines, o)
               THEN /\ UNCHANGED orders
                    /\ result' = Res("submit_order", "empty_order")
               ELSE /\ orders' = [orders EXCEPT ![o].status = COOKING]
                    /\ result' = Res("submit_order", "ok")

\* ---- kitchen ------------------------------------------------------------------------
HistoryRow(d, old, new, u) ==
    [id |-> nextHist, detail |-> d, old_status |-> old, new_status |-> new, changed_by |-> u]

\* the mutated same-status check: never short-circuits
IsNoOpNever(old, new) == FALSE

\* kitchen/services.py update_item_status: `if old_status == new_status: return item`
IsNoOp(old, new) == old = new

\* kitchen/services.py StatusHistory.objects.create(old_status=old_status, new_status=...)
TransitionRow(d, old, new, u) == HistoryRow(d, old, new, u)

\* kitchen/views.py cancel_item: request.POST.get('reason', 'Cancelled by Kitchen')
NoReason == ""
CancelReason == "Cancelled by Kitchen"

\* core/services.py NotificationService.send_ready_signal
send_ready_signal(order_id, item_name) ==
    [type |-> "ORDER_READY", order_id |-> order_id, item_name |-> item_name,
     reason |-> NoReason]

\* core/services.py NotificationService.send_cancellation_alert
send_cancellation_alert(order_id, item_name, reason) ==
    [type |-> "ORDER_CANCELLED", order_id |-> order_id, item_name |-> item_name,
     reason |-> reason]

\* update_item_status step 4: `if new_status == READY: send_ready_signal(...)`
StatusNotifications(d, s) ==
    IF s = READY THEN <<send_ready_signal(lines[d].order, lines[d].item)>> ELSE <<>>

\* KitchenController.update_item_status
UpdateItemStatus(d, s, u) ==
    /\ UNCHANGED <<orders, nextLine, transactions, invoices>>
    /\ UNCHANGED dbMenu
    /\ UNCHANGED <<dbInv, inflight>>
    /\ IF d \notin LineIds
       THEN /\ UNCHANGED <<lines, history, nextHist, sent>>
            /\ result' = Res("update_item_status", "validation_error")
       ELSE IF IsNoOp(lines[d].status, s)
       THEN /\ UNCHANGED <<lines, history, nextHist, sent>>
            /\ result' = Res("update_item_status", "unchanged")
       ELSE /\ nextHist <= MaxHistory
            /\ lines' = [lines EXCEPT ![d].status = s]
            /\ history' = Append(history, TransitionRow(d, lines[d].status, s, u))
            /\ nextHist' = nextHist + 1
            /\ sent' = sent \o StatusNotifications(d, s)
            /\ result' = Res("update_item_status", "ok")

\* KitchenController.cancel_item
CancelItem(d, u) ==
    /\ UNCHANGED <<orders, nextLine, transactions, invoices>>
    /\ UNCHANGED dbMenu
    /\ UNCHANGED <<dbInv, inflight>>
    /\ IF d \notin LineIds
       THEN /\ UNCHANGED <<lines, history, nextHist, sent>>
            /\ result' = Res("cancel_item", "validation_error")
       ELSE IF lines[d].status = SERVED
       THEN /\ UNCHANGED <<lines, history, nextHist, sent>>
            /\ result' = Res("cancel_item", "validation_error")
       ELSE /\ nextHist <= MaxHistory
            /\ lines' = [lines EXCEPT ![d].status = CANCELLED]
            /\ history' = Append(history, TransitionRow(d, lines[d].status, CANCELLED, u))
            /\ nextHist' = nextHist + 1
            /\ sent' = Append(sent, send_cancellation_alert(lines[d].order, lines[d].item,
                                                           CancelReason))
            /\ result' = Res("cancel_item", "ok")

\* StatusHistory.objects.filter(order_detail=item).order_by('-changed_at'):
\* the positions in history of the rows of line d
HistoryIdxOf(d) == {k \in DOMAIN history : history[k].detail = d}

\* the mutated undo row: a copy of the undone row
UndoRowCopied(d, last_change, u) ==
    HistoryRow(d, last_change.old_status, last_change.new_status, u)

\* undo_last_status: StatusHistory.objects.create(old_status=last_change.new_status,
\* new_status=prev_status)
UndoRow(d, last_change, u) ==
    HistoryRow(d, last_change.new_status, last_change.old_status, u)

\* KitchenController.undo_last_status
UndoLastStatus(d, u) ==
    /\ UNCHANGED <<orders, nextLine, transactions, invoices>>
    /\ UNCHANGED dbMenu
    /\ UNCHANGED <<dbInv, inflight, sent>>
    /\ IF d \notin LineIds
       THEN \* OrderDetail.objects.get raises DoesNotExist
            /\ UNCHANGED <<lines, history, nextHist>>
            /\ result' = Res("undo_last_status", "error")
       ELSE IF HistoryIdxOf(d) = {}
       THEN /\ UNCHANGED <<lines, history, nextHist>>
            /\ result' = Res("undo_last_status", "validation_error")
       ELSE LET k == CHOOSE x \in HistoryIdxOf(d) : \A y \in HistoryIdxOf(d) : y <= x
                last_change == history[k]
            IN  /\ nextHist <= MaxHistory
                /\ lines' = [lines EXCEPT ![d].status = last_change.old_status]
                /\ history' = Append(history, UndoRow(d, last_change, u))
                /\ nextHist' = nextHist + 1
                /\ result' = Res("undo_last_status", "ok")

\* ---- menu ---------------------------------------------------------------------------
\* menu/views.py menu_item_update_view (POST, valid forms)
MenuItemUpdate(i, new_price, st) ==
    /\ UNCHANGED dbSales
    /\ UNCHANGED <<dbInv, inflight, sent>>
    /\ UNCHANGED <<stock, isOpen>>
    /\ IF new_price # CurrentPrice(i)
       THEN /\ pricing' = [pricing EXCEPT ![i] = new_price]
            /\ itemPrice' = [itemPrice EXCEPT ![i] = new_price]
       ELSE UNCHANGED <<pricing, itemPrice>>
    /\ itemStatus' = [itemStatus EXCEPT ![i] = st]
    /\ result' = Res("menu_item_update", "ok")

\* a new Pricing row taking effect now (menu/admin.py PricingAdmin, Pricing.objects.create)
CreatePricing(i, p) ==
    /\ UNCHANGED dbSales
    /\ UNCHANGED <<dbInv, inflight, sent>>
    /\ UNCHANGED <<itemPrice, itemStatus, stock, isOpen>>
    /\ pricing' = [pricing EXCEPT ![i] = p]
    /\ result' = Res("create_pricing", "ok")

\* kitchen/views.py toggle_menu_item_stock
ToggleMenuItemStock(i) ==
    /\ UNCHANGED dbSales
    /\ UNCHANGED <<dbInv, inflight, sent>>
    /\ UNCHANGED <<itemPrice, pricing, stock, isOpen>>
    /\ itemStatus' = [itemStatus EXCEPT ![i] =
                         IF itemStatus[i] = OUT_OF_STOCK THEN ACTIVE ELSE OUT_OF_STOCK]
    /\ result' = Res("toggle_menu_item_stock", "ok")

\* ---- payment -----------------------------------------------------------------------
MaxTx == 2
PromoCodes == {"SAVE50", "FIX100", "OLD50"}
NoPromo == ""
\* Promotion rows: discount_type, discount_value and the value of is_valid()
Promotion(code) ==
    CASE code = "SAVE50" -> [discount_type |-> "PERCENTAGE", discount_value |-> 50, is_valid |-> TRUE]
      [] code = "FIX100" -> [discount_type |-> "FIXED_AMOUNT", discount_value |-> 100, is_valid |-> TRUE]
      [] code = "OLD50"  -> [discount_type |-> "PERCENTAGE", discount_value |-> 50, is_valid |-> FALSE]

Max(a, b) == IF a >= b THEN a ELSE b

\* sales/models.py DiscountType
DiscountType == {"PERCENTAGE", "FIXED_AMOUNT"}
\* discount_value of a Promotion row as entered, before validation
PromoValues == {-50, 0, 50, 100, 150, 300}
\* Promotion.clean, run by Promotion.save through full_clean
PromotionClean(p) ==
    IF p.discount_type = "PERCENTAGE"
    THEN ~(p.discount_value < 0 \/ p.discount_value > 100)
    ELSE ~(p.discount_value < 0)
\* the Promotion rows that save() accepts
SavedPromotions ==
    {p \in [discount_type : DiscountType, discount_value : PromoValues, is_valid : BOOLEAN] :
        PromotionClean(p)}

\* the mutated discount: not capped at the order total
discount_uncapped(promo, order_total) ==
    IF ~promo.is_valid THEN 0
    ELSE IF promo.discount_type = "PERCENTAGE"
         THEN (order_total * promo.discount_value) \div 100
         ELSE promo.discount_value

\* PromotionEngine.apply_promotion once the Promotion row is found
discount_of(promo, order_total) ==
    IF ~promo.is_valid THEN 0
    ELSE LET discount_amount ==
                 IF promo.discount_type = "PERCENTAGE"
                 THEN (order_total * promo.discount_value) \div 100
                 ELSE promo.discount_value
         IN IF discount_amount > order_total THEN order_total ELSE discount_amount

\* PromotionEngine.apply_promotion
apply_promotion(code, order_total) ==
    IF code \notin PromoCodes THEN 0
    ELSE discount_of(Promotion(code), order_total)

\* process_payment step 2: order.total_amount -= discount, floored at 0
DiscountedTotal(total_amount, discount) ==
    IF total_amount - discount < 0 THEN 0 ELSE total_amount - discount
\* process_payment step 3: final_required
FinalRequired(original_total, discount) == Max(0, original_total - discount)

\* PaymentGatewayClient.send_transaction: the mock always approves
GatewayApproves(amount, o) == TRUE

\* the fields declared by class Transaction / class Invoice in sales/models.py
TransactionFields ==
    {"transaction_id", "order", "amount", "payment_method", "status",
     "transaction_date", "reference_code"}
InvoiceFields ==
    {"invoice_id", "order", "issued_at", "final_total", "payment_method"}

\* keyword arguments of the three objects.create calls of process_payment
TransactionKwargs ==
    {"order", "amount", "payment_method", "status", "reference_code",
     "promotion", "discount_amount"}
InvoiceKwargs ==
    {"order", "final_total", "payment_method", "promotion", "discount_amount",
     "original_total"}

\* Model.__init__ raises TypeError for a keyword that is not a field of the model
AcceptsKwargs(fields, kwargs) == kwargs \subseteq fields

TxRow(o, amount, method, st, promo, discount) ==
    [order |-> o, amount |-> amount, payment_method |-> method, status |-> st,
     promotion |-> promo, discount_amount |-> discount]

\* the mutated entry check: a Paid order is not rejected
RejectsPaidNever(st) == FALSE

\* process_payment step 1: `if order.status == Order.Status.PAID: return failure`
RejectsPaid(st) == st = PAID

\* PaymentController.process_payment; the order row is locked (select_for_update)
\* from entry to commit, so calls on one order are serialized; gw_success is the
\* 'success' field of the answer of PaymentGatewayClient.send_transaction
ProcessPaymentGw(o, amount, method, promo_code, gw_success) ==
    /\ UNCHANGED <<lines, nextLine, history, nextHist>>
    /\ UNCHANGED dbMenu
    /\ UNCHANGED <<dbInv, inflight, sent>>
    /\ IF o \notin OrderIds
       THEN /\ UNCHANGED <<orders, transactions, invoices>>
            /\ result' = ResOn("process_payment", "not_found", o)
       ELSE IF RejectsPaid(orders[o].status)
       THEN /\ UNCHANGED <<orders, transactions, invoices>>
            /\ result' = ResOn("process_payment", "already_paid", o)
       ELSE LET original_total == orders[o].total_amount
                discount == IF promo_code # NoPromo
                            THEN apply_promotion(promo_code, original_total) ELSE 0
                promo_obj == IF promo_code \in PromoCodes THEN promo_code ELSE NoPromo
                \* step 2: order.total_amount -= discount; order.save()
                discounted == IF promo_code # NoPromo /\ discount > 0
                              THEN [orders EXCEPT ![o].total_amount = DiscountedTotal(@, discount)]
                              ELSE orders
                final_required == FinalRequired(original_total, discount)
            IN IF amount < final_required
               THEN IF ~AcceptsKwargs(TransactionFields, TransactionKwargs)
                    THEN \* TypeError leaves the atomic block: everything is rolled back
                         /\ UNCHANGED <<orders, transactions, invoices>>
                         /\ result' = ResOn("process_payment", "type_error", o)
                    ELSE /\ Len(transactions) < MaxTx
                         /\ orders' = discounted
                         /\ transactions' = Append(transactions,
                                TxRow(o, amount, method, "FAILED", promo_obj, discount))
                         /\ UNCHANGED invoices
                         /\ result' = ResOn("process_payment", "insufficient", o)
               ELSE IF method # "CASH" /\ ~gw_success
               THEN /\ orders' = discounted
                    /\ UNCHANGED <<transactions, invoices>>
                    /\ result' = ResOn("process_payment", "gateway_rejected", o)
               ELSE IF \/ ~AcceptsKwargs(TransactionFields, TransactionKwargs)
                       \/ ~AcceptsKwargs(InvoiceFields, InvoiceKwargs)
               THEN /\ UNCHANGED <<orders, transactions, invoices>>
                    /\ result' = ResOn("process_payment", "type_error", o)
               ELSE IF \E inv \in invoices : inv.order = o
               THEN \* OneToOneField: a second Invoice raises IntegrityError
                    /\ UNCHANGED <<orders, transactions, invoices>>
                    /\ result' = ResOn("process_payment", "integrity_error", o)
               ELSE /\ Len(transactions) < MaxTx
                    /\ transactions' = Append(transactions,
                           TxRow(o, amount, method, "SUCCESS", promo_obj, discount))
                    /\ invoices' = invoices \cup
                           {[order |-> o, final_total |-> final_required,
                             payment_method |-> method, promotion |-> promo_obj,
                             discount_amount |-> discount, original_total |-> original_total]}
                    /\ orders' = [discounted EXCEPT ![o].status = PAID]
                    /\ result' = ResOn("process_payment", "success", o)

\* process_payment with the adapter shipped in the repository
ProcessPayment(o, amount, method, promo_code) ==
    ProcessPaymentGw(o, amount, method, promo_code, GatewayApproves(amount, o))

\* the members of Order.Status, and the members the payment view names in
\* `status__in=[Order.Status.COOKING, Order.Status.SERVED]`
OrderStatusMembers == {"PENDING", "COOKING", "PAID", "CANCELLED"}
PaymentViewMembers == {"COOKING", "SERVED"}
\* an enum member that is not defined raises AttributeError
HasMembers(enum, names) == names \subseteq enum

\* sales/views.py process_payment (POST of the payment form of table t); with
\* apply_promo the view executes `pass` and goes on to the payment
PaymentFormPost(t, payment_method, received_amount, promo_code, apply_promo) ==
    IF ~HasMembers(OrderStatusMembers, PaymentViewMembers)
    THEN \* AttributeError leaves the view's atomic block
         /\ UNCHANGED <<dbSales, dbMenu, dbInv, inflight, sent>>
         /\ result' = Res("payment_form", "attribute_error")
    ELSE IF \A o \in OrderIds : ~(orders[o].table = t /\ orders[o].status = COOKING)
    THEN /\ UNCHANGED <<dbSales, dbMenu, dbInv, inflight, sent>>
         /\ result' = Res("payment_form", "no_active_order")
    ELSE \E o \in OrderIds :
            /\ orders[o].table = t /\ orders[o].status = COOKING
            /\ ProcessPayment(o,
                   IF payment_method # "CASH" THEN orders[o].total_amount
                   ELSE received_amount,
                   payment_method, promo_code)

\* order totals offered to the discount computation: multiples of 100, so that
\* a whole percentage of a total is a whole number
PromoTotals == {0, 100, 200}

\* process_payment steps 2 and 3 for an order of total order_total and the
\* promotion row promo: the discount, the order's new total_amount and the
\* amount due, computed before any row is created
PaymentQuote(promo, order_total) ==
    /\ UNCHANGED <<orders, lines, nextLine, history, nextHist, transactions, invoices>>
    /\ UNCHANGED dbMenu
    /\ UNCHANGED <<dbInv, inflight, sent>>
    /\ LET discount == discount_of(promo, order_total)
       IN result' = [op |-> "payment_quote", res |-> "ok", id |-> 0,
                     promo |-> promo, order_total |-> order_total,
                     discount |-> discount,
                     total_amount |-> IF discount > 0
                                      THEN DiscountedTotal(order_total, discount)
                                      ELSE order_total,
                     final_required |-> FinalRequired(order_total, discount)]

\* ---- third-party order API -------------------------------------------------------------
RecipeQty == 1
\* the menu items that have a recipe; the recipe of "A" uses RecipeQty of the ingredient
RecipeItems == {"A"}
\* InventoryService.check_availability at on-hand quantity q:
\* an item without recipe is always available
Available(q, i, qty) ==
    IF i \in RecipeItems THEN ~(q < RecipeQty * qty) ELSE TRUE
check_availability(i, qty) == Available(stock, i, qty)

\* price check of CreateThirdPartyOrderView.post: more than 5% off the menu price
PriceMismatch(incoming_price, db_price) ==
    LET diff == IF incoming_price >= db_price THEN incoming_price - db_price
                ELSE db_price - incoming_price
    IN incoming_price > 0 /\ diff * 100 > db_price * 5

\* the item loop of CreateThirdPartyOrderView.post, from position k on.
\* acc: the lines written so far, the key counter, the running total, the
\* manual-review flag, the number of unavailable items, and whether the loop was
\* left by the `return` for an unknown SKU
RECURSIVE ProcessItems(_, _, _, _)
ProcessItems(items, k, o, acc) ==
    IF k > Len(items) THEN acc
    ELSE LET it == items[k]
         IN IF it.sku \notin Items
            THEN [acc EXCEPT !.invalid_sku = TRUE]
            ELSE IF \/ itemStatus[it.sku] = OUT_OF_STOCK
                    \/ itemStatus[it.sku] # ACTIVE
                    \/ ~check_availability(it.sku, it.quantity)
            THEN ProcessItems(items, k + 1, o, [acc EXCEPT !.unavailable = @ + 1])
            ELSE ProcessItems(items, k + 1, o,
                   [acc EXCEPT
                      !.ls = [d \in DOMAIN acc.ls \cup {acc.nl} |->
                                IF d = acc.nl
                                THEN NewLine(o, it.sku, it.quantity, itemPrice[it.sku], PENDING)
                                ELSE acc.ls[d]],
                      !.nl = @ + 1,
                      !.total = @ + itemPrice[it.sku] * it.quantity,
                      !.review = @ \/ PriceMismatch(it.price, itemPrice[it.sku])])

\* `return Response(..., 400)` inside `with transaction.atomic()`: the block is left
\* without an exception, so the header and the lines written so far are committed
InvalidSkuOutcome(ords, ls, nl) == <<ords, ls, nl>>

\* the `with transaction.atomic()` block of CreateThirdPartyOrderView.post and the
\* except clauses around it.  Order.external_id is unique: creating the header
\* for a reference that is already stored raises IntegrityError, which the
\* `except Exception` clause answers with 500
CreateOrderTransaction(partner_ref, items) ==
    IF \E x \in OrderIds : orders[x].external_id = partner_ref
    THEN /\ UNCHANGED <<orders, lines, nextLine>>
         /\ result' = Res("create_order", "integrity_error")
    ELSE LET o == Len(orders) + 1
             header == Append(orders, NewOrder(NoTable, PENDING, 0, partner_ref))
             acc == ProcessItems(items, 1, o,
                       [ls |-> lines, nl |-> nextLine, total |-> 0, review |-> FALSE,
                        unavailable |-> 0, invalid_sku |-> FALSE])
         IN  /\ Len(orders) < MaxOrders
             /\ acc.nl <= MaxLines + 1
             /\ IF acc.invalid_sku
                THEN /\ orders' = InvalidSkuOutcome(header, acc.ls, acc.nl)[1]
                     /\ lines' = InvalidSkuOutcome(header, acc.ls, acc.nl)[2]
                     /\ nextLine' = InvalidSkuOutcome(header, acc.ls, acc.nl)[3]
                     /\ result' = Res("create_order", "invalid_sku")
                ELSE IF acc.unavailable > 0
                THEN \* RuntimeError("Stock Unavailable"): the atomic block rolls back
                     /\ UNCHANGED <<orders, lines, nextLine>>
                     /\ result' = Res("create_order", "unavailable")
                ELSE /\ orders' = [header EXCEPT
                                     ![o].total_amount = acc.total,
                                     ![o].status = IF acc.review THEN PENDING ELSE COOKING]
                     /\ lines' = acc.ls
                     /\ nextLine' = acc.nl
                     /\ result' = Res("create_order", "created")

\* the answers CreateThirdPartyOrderView.post gives before it opens its transaction
\* (steps 1 and 2), or "pass"
CreateOrderPrecheck(partner_ref, items) ==
    IF items = <<>> THEN "bad_request"
    ELSE IF \E x \in OrderIds : orders[x].external_id = partner_ref THEN "already_exists"
    ELSE IF ~isOpen THEN "closed"
    ELSE "pass"

\* sales/api/views.py CreateThirdPartyOrderView.post, run without interruption
CreateThirdPartyOrder(partner_ref, items) ==
    /\ UNCHANGED <<history, nextHist, transactions, invoices>>
    /\ UNCHANGED dbMenu
    /\ UNCHANGED <<dbInv, inflight, sent>>
    /\ IF CreateOrderPrecheck(partner_ref, items) # "pass"
       THEN /\ UNCHANGED <<orders, lines, nextLine>>
            /\ result' = Res("create_order", CreateOrderPrecheck(partner_ref, items))
       ELSE CreateOrderTransaction(partner_ref, items)

\* CreateThirdPartyOrderView.post of request w up to the start of its transaction:
\* no lock is held between the idempotency check and Order.objects.create
CreateOrderBegin(w, partner_ref, items) ==
    /\ UNCHANGED <<dbSales, dbMenu, dbInv, takeInFlight, deductInFlight, sent, cartInFlight>>
    /\ \A f \in apiInFlight : f.worker # w
    /\ IF CreateOrderPrecheck(partner_ref, items) # "pass"
       THEN /\ UNCHANGED apiInFlight
            /\ result' = Res("create_order", CreateOrderPrecheck(partner_ref, items))
       ELSE /\ apiInFlight' = apiInFlight \cup
                   {[worker |-> w, partner_ref |-> partner_ref, items |-> items]}
            /\ UNCHANGED result

\* the transaction of a request that passed its checks
CreateOrderCommit(f) ==
    /\ f \in apiInFlight
    /\ UNCHANGED <<history, nextHist, transactions, invoices>>
    /\ UNCHANGED <<dbMenu, dbInv, takeInFlight, deductInFlight, sent, cartInFlight>>
    /\ apiInFlight' = apiInFlight \ {f}
    /\ CreateOrderTransaction(f.partner_ref, f.items)

\* ---- inventory ------------------------------------------------------------------------------
MaxTickets == 2
MaxInvOps == 3
CostPerUnit == 2
\* StockTakeDetail.actual_quantity left blank (null)
NoCount == -1
Counts == 0..MaxStock
DRAFT == "DRAFT"
COMPLETED == "COMPLETED"

\* the mutated receiver: an item that is out of stock is never re-activated
post_save_no_reactivation(q) ==
    [i \in Items |->
        IF i \notin RecipeItems THEN itemStatus[i]
        ELSE IF ~Available(q, i, 1) /\ itemStatus[i] # OUT_OF_STOCK THEN OUT_OF_STOCK
        ELSE itemStatus[i]]

\* inventory/signals.py inventoryitem_post_save, run by every InventoryItem.save():
\* the status of each menu item whose recipe uses the ingredient, at the saved quantity q
inventoryitem_post_save(q) ==
    [i \in Items |->
        IF i \notin RecipeItems THEN itemStatus[i]
        ELSE IF ~Available(q, i, 1) /\ itemStatus[i] # OUT_OF_STOCK THEN OUT_OF_STOCK
        ELSE IF Available(q, i, 1) /\ itemStatus[i] = OUT_OF_STOCK THEN ACTIVE
        ELSE itemStatus[i]]

\* inv_item.quantity_on_hand = q; inv_item.save(), with the post_save signal
SaveInventoryItem(q, entry) ==
    /\ Len(invLog) < MaxInvOps
    /\ stock' = q
    /\ itemStatus' = inventoryitem_post_save(q)
    /\ invLog' = Append(invLog, entry)
    /\ UNCHANGED stock0

\* inventory/views.py adjust_stock (POST)
AdjustStock(new_qty) ==
    /\ UNCHANGED <<dbSales, itemPrice, pricing, isOpen, tickets, inflight, sent>>
    /\ SaveInventoryItem(new_qty, [kind |-> "set", v |-> new_qty])
    /\ result' = Res("adjust_stock", "ok")

\* WasteService.report_waste, called by kitchen/views.py WasteReportView.post
\* with a known reason code: quantity of the ingredient itself, or of the dish
\* (its recipe is exploded)
WasteItemTypes == {"ingredient", "menu_item"}
ReportWaste(item_type, item, quantity) ==
    /\ UNCHANGED <<dbSales, itemPrice, pricing, isOpen, tickets, inflight, sent>>
    /\ IF quantity <= 0
       THEN /\ UNCHANGED <<stock, itemStatus, invLog, stock0>>
            /\ result' = Res("report_waste", "validation_error")
       ELSE IF item_type = "menu_item" /\ item \notin RecipeItems
       THEN \* no recipe: the report is recorded without a deduction
            /\ UNCHANGED <<stock, itemStatus, invLog, stock0>>
            /\ result' = Res("report_waste", "ok")
       ELSE LET wasted == IF item_type = "ingredient" THEN quantity
                          ELSE RecipeQty * quantity
            IN /\ SaveInventoryItem(stock - wasted, [kind |-> "deduct", v |-> wasted])
               /\ result' = Res("report_waste", "ok")

\* InventoryService.deduct_ingredients_for_item up to
\* `inv_item, _ = InventoryItem.objects.get_or_create(...)`: the row is read
\* without a lock and outside any transaction
DeductBegin(w, d) ==
    /\ d \in LineIds
    /\ \A f \in deductInFlight : f.worker # w
    /\ UNCHANGED <<dbSales, dbMenu, dbInv, apiInFlight, takeInFlight, sent, cartInFlight>>
    /\ IF lines[d].item \notin RecipeItems
       THEN /\ UNCHANGED deductInFlight
            /\ result' = Res("deduct_ingredients_for_item", "no_recipe")
       ELSE /\ deductInFlight' = deductInFlight \cup
                   {[worker |-> w, needed |-> lines[d].quantity * RecipeQty, read |-> stock]}
            /\ UNCHANGED result

\* `inv_item.quantity_on_hand -= total_needed`, on the instance that was read
Deducted(f) == f.read - f.needed

\* deduct_ingredients_for_item: `inv_item.save()`
DeductSave(f) ==
    /\ f \in deductInFlight
    /\ UNCHANGED <<dbSales, itemPrice, pricing, isOpen, tickets, apiInFlight, takeInFlight, sent, cartInFlight>>
    /\ deductInFlight' = deductInFlight \ {f}
    /\ SaveInventoryItem(Deducted(f), [kind |-> "deduct", v |-> f.needed])
    /\ result' = Res("deduct_ingredients_for_item", "ok")

\* ---- stock take ------------------------------------------------------------------------------
\* a StockTakeTicket with its one StockTakeDetail (there is one InventoryItem)
NewTicket(q) ==
    [status |-> DRAFT, variance_total_value |-> 0,
     snapshot_quantity |-> q, actual_quantity |-> q, variance |-> 0]

\* inventory/views.py stock_take_create (POST): bulk_create does not call save()
StockTakeCreate ==
    /\ Len(tickets) < MaxTickets
    /\ UNCHANGED <<dbSales, dbMenu, stock0, invLog, inflight, sent>>
    /\ tickets' = Append(tickets, NewTicket(stock))
    /\ result' = Res("stock_take_create", "ok")

\* the mutated save: the variance is not recomputed
DetailSavedStale(t, count) == [t EXCEPT !.actual_quantity = count]

\* StockTakeDetail.save() with the count of the form
DetailSaved(t, count) ==
    [t EXCEPT !.actual_quantity = count,
              !.variance = IF count # NoCount THEN count - t.snapshot_quantity ELSE @]

\* stock_take_detail (POST) of request w, up to the Draft check
TakeBegin(w, k, count, finalize) ==
    /\ k \in DOMAIN tickets
    /\ \A f \in takeInFlight : f.worker # w
    /\ UNCHANGED <<dbSales, dbMenu, dbInv, apiInFlight, deductInFlight, sent, cartInFlight>>
    /\ IF tickets[k].status # DRAFT
       THEN /\ UNCHANGED takeInFlight
            /\ result' = Res("stock_take_detail", "readonly")
       ELSE /\ takeInFlight' = takeInFlight \cup
                   {[worker |-> w, ticket |-> k, count |-> count,
                     finalize |-> finalize, saved |-> FALSE]}
            /\ UNCHANGED result

\* stock_take_detail: formset.save(), then the redirect of 'Save Draft'
TakeSave(f) ==
    /\ f \in takeInFlight /\ ~f.saved
    /\ UNCHANGED <<dbSales, dbMenu, stock0, invLog, apiInFlight, deductInFlight, sent, cartInFlight>>
    /\ tickets' = [tickets EXCEPT ![f.ticket] = DetailSaved(@, f.count)]
    /\ IF f.finalize
       THEN /\ takeInFlight' = (takeInFlight \ {f}) \cup {[f EXCEPT !.saved = TRUE]}
            /\ UNCHANGED result
       ELSE /\ takeInFlight' = takeInFlight \ {f}
            /\ result' = Res("stock_take_detail", "saved")

\* the mutated overwrite: the variance is added to the live quantity
FinalQuantityDelta(t) == stock + t.variance

\* finalize_stock_take: inv_item.quantity_on_hand = detail.actual_quantity
FinalQuantity(t) == t.actual_quantity

\* finalize_stock_take, one transaction; the InventoryItem row is locked
TakeFinalize(f) ==
    /\ f \in takeInFlight /\ f.saved
    /\ UNCHANGED <<dbSales, itemPrice, pricing, isOpen, apiInFlight, deductInFlight, sent, cartInFlight>>
    /\ takeInFlight' = takeInFlight \ {f}
    /\ LET t == tickets[f.ticket]
           counted == t.actual_quantity # NoCount
       IN /\ IF counted
             THEN SaveInventoryItem(FinalQuantity(t), [kind |-> "set", v |-> FinalQuantity(t)])
             ELSE UNCHANGED <<stock, itemStatus, invLog, stock0>>
          /\ tickets' = [tickets EXCEPT
                          ![f.ticket].status = COMPLETED,
                          ![f.ticket].variance_total_value =
                              IF counted THEN t.variance * CostPerUnit ELSE 0]
    /\ result' = Res("finalize_stock_take", "ok")

\* ---- offline sync -----------------------------------------------------------------------
\* sales/serializers.py OfflineOrderSyncSerializer.create for one order of the batch:
\* table, status and total_amount are taken from the client
SyncOfflineOrder(t, st, total, items) ==
    /\ UNCHANGED <<history, nextHist, transactions, invoices>>
    /\ UNCHANGED dbMenu
    /\ UNCHANGED <<dbInv, inflight, sent>>
    /\ Len(orders) < MaxOrders
    /\ nextLine + Len(items) <= MaxLines + 1
    /\ orders' = Append(orders, NewOrder(t, st, total, NoExt))
    /\ lines' = [d \in LineIds \cup {nextLine + k - 1 : k \in DOMAIN items} |->
                    IF d \in LineIds THEN lines[d]
                    ELSE LET it == items[d - nextLine + 1]
                         IN NewLine(Len(orders) + 1, it.item, it.quantity, it.price_snapshot, PENDING)]
    /\ nextLine' = nextLine + Len(items)
    /\ result' = Res("sync_orders", "created")

\* ---- inputs ------------------------------------------------------------------------------
Amounts == {0, 100, 200}
Methods == {"CASH", "CARD"}
ApiItems == [sku : Items \cup {UnknownSku}, quantity : 1..MaxQty, price : {0, 100, 200}]
ApiPayloads == {<<>>} \cup {<<a>> : a \in ApiItems} \cup {<<a, b>> : a, b \in ApiItems}
SyncItems == [item : Items, quantity : 1..MaxQty, price_snapshot : Prices]
SyncPayloads == {<<>>} \cup {<<a>> : a \in SyncItems}

\* ---- next-state relations -------------------------------------------------------------------
\* the kitchen calls made by the users U
Kitchen(U) ==
    \/ \E d \in 1..MaxLines, s \in KitchenStatusChoices, u \in U : UpdateItemStatus(d, s, u)
    \/ \E d \in 1..MaxLines, u \in U : CancelItem(d, u)
    \/ \E d \in 1..MaxLines, u \in U : UndoLastStatus(d, u)

Cart ==
    \/ \E t \in Tables, i \in Items : AddToCart(t, i)
    \/ \E t \in Tables, d \in 1..MaxLines : RemoveFromCart(t, d)

Payment ==
    \E o \in 1..MaxOrders, a \in Amounts, m \in Methods, c \in PromoCodes \cup {NoPromo, "NOPE"} :
        ProcessPayment(o, a, m, c)

Menu ==
    \/ \E i \in Items, p \in Prices, st \in ItemStatusChoices : MenuItemUpdate(i, p, st)
    \/ \E i \in Items, p \in Prices : CreatePricing(i, p)
    \/ \E i \in Items : ToggleMenuItemStock(i)

Api ==
    \E r \in PartnerRefs, items \in ApiPayloads : CreateThirdPartyOrder(r, items)

Sync ==
    \E t \in Tables \cup {NoTable}, st \in OrderStatusChoices, total \in Amounts,
       items \in SyncPayloads : SyncOfflineOrder(t, st, total, items)

Submit == \E t \in Tables : SubmitOrder(t)

Workers == 1..MaxWorkers

Deduction ==
    \/ \E w \in Workers, d \in 1..MaxLines : DeductBegin(w, d)
    \/ \E f \in deductInFlight : DeductSave(f)

StockTake ==
    \/ StockTakeCreate
    \/ \E w \in Workers, k \in 1..MaxTickets, count \in Counts \cup {NoCount},
          finalize \in BOOLEAN : TakeBegin(w, k, count, finalize)
    \/ \E f \in takeInFlight : TakeSave(f)
    \/ \E f \in takeInFlight : TakeFinalize(f)

Adjust == \E q \in Counts : AdjustStock(q)

Next ==
    \/ Cart \/ Submit \/ Kitchen(Users) \/ Payment \/ Menu \/ Api \/ Sync
    \/ Deduction \/ StockTake \/ Adjust
Spec == Init /\ [][Next]_vars

\* payment on orders made by the cart and by the offline sync
SyncPay ==
    \E t \in Tables, st \in OrderStatusChoices, total \in {100, 200},
       items \in {<<>>, <<[item |-> "A", quantity |-> 1, price_snapshot |-> 100]>>} :
        SyncOfflineOrder(t, st, total, items)
NextPay == SyncPay \/ Payment
SpecPay == Init /\ [][NextPay]_vars

\* the restaurant open and the ingredient of "A" fully stocked
InitOpen == Init /\ isOpen /\ stock = MaxStock

\* the point of sale: cart, kitchen, price changes and payment
PaymentPos ==
    \E o \in OrderIds, a \in {0, 200}, c \in {NoPromo, "SAVE50"} :
        ProcessPayment(o, a, "CASH", c)
PricingPos ==
    \/ \E p \in Prices : CreatePricing("A", p)
    \/ \E p \in Prices : MenuItemUpdate("A", p, ACTIVE)
\* the cart of one table ordering the item whose price changes
CartPos ==
    \/ \E t \in Tables : AddToCart(t, "A")
    \/ \E t \in Tables, d \in 1..MaxLines : RemoveFromCart(t, d)
NextPos == CartPos \/ Kitchen({"chef"}) \/ PaymentPos \/ PricingPos
SpecPos == InitOpen /\ [][NextPos]_vars

\* the kitchen display working on the lines of the cart
\* every item is ordered once: add_to_cart only opens new lines here
NewLineToCart == \E t \in Tables, i \in Items : AddToCart(t, i) /\ nextLine' = nextLine + 1
NextKitchen == NewLineToCart \/ Kitchen(Users)
SpecKitchen == InitOpen /\ [][NextKitchen]_vars

\* the third-party order API with the menu changing under it
NextApi == Api \/ (\E i \in Items : ToggleMenuItemStock(i)) \/ (\E i \in Items, st \in ItemStatusChoices : MenuItemUpdate(i, itemPrice[i], st))
SpecApi == Init /\ [][NextApi]_vars

\* concurrent create-order requests of the delivery partner
RacePayloads ==
    {<<[sku |-> k, quantity |-> 1, price |-> 100]>> : k \in Items \cup {UnknownSku}}
ApiRace ==
    \/ \E w \in Workers, r \in PartnerRefs, items \in RacePayloads \cup {<<>>} :
          CreateOrderBegin(w, r, items)
    \/ \E f \in apiInFlight : CreateOrderCommit(f)
NextApiRace == ApiRace \/ (\E i \in Items : ToggleMenuItemStock(i))
SpecApiRace == Init /\ [][NextApiRace]_vars

\* deductions for the lines of a cart running next to stock takes
NewLineA == \E t \in Tables : AddToCart(t, "A") /\ nextLine' = nextLine + 1
\* one stock take, counted and finalized by one user
OneStockTake ==
    \/ StockTakeCreate /\ tickets = <<>>
    \/ \E count \in Counts : TakeBegin(1, 1, count, TRUE)
    \/ \E f \in takeInFlight : TakeSave(f)
    \/ \E f \in takeInFlight : TakeFinalize(f)
NextInvRace == NewLineA \/ Deduction \/ OneStockTake
SpecInvRace == InitOpen /\ [][NextInvRace]_vars

\* stock takes next to manual stock adjustments
\* one ticket, counted by two users
SharedStockTake ==
    \/ StockTakeCreate /\ tickets = <<>>
    \/ \E w \in {1, 2}, count \in Counts \cup {NoCount}, finalize \in BOOLEAN :
          TakeBegin(w, 1, count, finalize)
    \/ \E f \in takeInFlight : TakeSave(f)
    \/ \E f \in takeInFlight : TakeFinalize(f)
NextTake == SharedStockTake \/ Adjust
SpecTake == InitOpen /\ [][NextTake]_vars

\* stock adjustments and a stock take, with the menu status of "A" set by hand
ManualStatus ==
    \/ ToggleMenuItemStock("A")
    \/ \E st \in ItemStatusChoices : MenuItemUpdate("A", itemPrice["A"], st)
NextSignal == Adjust \/ OneStockTake \/ ManualStatus
SpecSignal == InitOpen /\ [][NextSignal]_vars

\* an order of item "A" through its lifecycle: taken at the table or synced from
\* an offline client, worked by the kitchen, paid at the till
SyncA ==
    \E t \in Tables, st \in OrderStatusChoices, q \in 1..MaxQty :
        SyncOfflineOrder(t, st, 100 * q,
                         <<[item |-> "A", quantity |-> q, price_snapshot |-> 100]>>)
NextFulfil == NewLineA \/ SyncA \/ Kitchen({"chef"}) \/ PaymentPos
SpecFulfil == InitOpen /\ [][NextFulfil]_vars

\* promotions at the till: the discount computation on every saved promotion,
\* and payments with a promo code on the orders of the cart
PaymentPromo ==
    \E o \in OrderIds, a \in {0, 200}, c \in PromoCodes :
        ProcessPayment(o, a, "CASH", c)
Quote == \E promo \in SavedPromotions, T \in PromoTotals : PaymentQuote(promo, T)
NextPromo == CartPos \/ PaymentPromo \/ Quote
SpecPromo == InitOpen /\ [][NextPromo]_vars

\* payments at the till through a gateway that approves or rejects
PaymentGw ==
    \E o \in OrderIds, a \in {0, 200}, m \in Methods, c \in {NoPromo, "SAVE50"},
       gw_success \in BOOLEAN :
        ProcessPaymentGw(o, a, m, c, gw_success)
NextGateway == CartPos \/ PaymentGw
SpecGateway == InitOpen /\ [][NextGateway]_vars

\* every endpoint that creates an order or changes an order's header
ApiA == \E r \in PartnerRefs, items \in RacePayloads : CreateThirdPartyOrder(r, items)
NextOrders == CartPos \/ Submit \/ ApiA \/ SyncA \/ PaymentPos
SpecOrders == InitOpen /\ [][NextOrders]_vars

\* the same endpoints while the RESTAURANT_STATUS setting is CLOSED
InitClosed == Init /\ ~isOpen /\ stock = MaxStock
SpecClosed == InitClosed /\ [][NextOrders]_vars

\* the payment form of the tables, on orders taken at the table or synced
PayForm ==
    \E t \in Tables, m \in Methods, a \in {0, 200}, c \in {NoPromo, "SAVE50"},
       apply_promo \in BOOLEAN :
        PaymentFormPost(t, m, a, c, apply_promo)
NextPayForm == CartPos \/ Submit \/ SyncA \/ PayForm
SpecPayForm == InitOpen /\ [][NextPayForm]_vars

\* waste reports next to stock adjustments and deductions for order lines
Waste ==
    \E ty \in WasteItemTypes, i \in Items, q \in 0..MaxQty : ReportWaste(ty, i, q)
NextWaste == Waste \/ Adjust \/ NewLineA \/ Deduction
SpecWaste == InitOpen /\ [][NextWaste]_vars

\* concurrent add_to_cart requests for the tables
CartRace ==
    \/ \E w \in Workers, t \in Tables, i \in Items : AddToCartBegin(w, t, i)
    \/ \E f \in cartInFlight : AddToCartCommit(f)
NextCartRace == CartRace \/ Cart \/ Submit
SpecCartRace == InitOpen /\ [][NextCartRace]_vars

\* ---- properties ------------------------------------------------------------------------------
PayArgs == (1..MaxOrders) \X Amounts \X Methods \X (PromoCodes \cup {NoPromo, "NOPE"})
SuccessTxOf(txs, o) == {k \in DOMAIN txs : txs[k].order = o /\ txs[k].status = "SUCCESS"}
InvoicesOf(invs, o) == {inv \in invs : inv.order = o}
\* the amount due: the order total minus the promotion discount
Required(o, c) ==
    Max(0, orders[o].total_amount
           - (IF c # NoPromo THEN apply_promotion(c, orders[o].total_amount) ELSE 0))

\* C1: an order never has more than one Invoice or more than one SUCCESS
\* Transaction, a call only returns success on an order that was not Paid, and a
\* process_payment call that finds the order Paid returns the already-paid failure
\* and changes no Order, Transaction or Invoice row.
C1_AtMostOnePayment ==
    [][ /\ \A o \in 1..Len(orders') :
             /\ Cardinality(InvoicesOf(invoices', o)) <= 1
             /\ Cardinality(SuccessTxOf(transactions', o)) <= 1
        /\ (result'.op = "process_payment" /\ result'.id \in OrderIds
               /\ orders[result'.id].status = PAID)
           => /\ result'.res = "already_paid"
              /\ UNCHANGED <<orders, lines, transactions, invoices>>
        /\ (result'.op = "process_payment" /\ result'.res = "success")
           => /\ orders[result'.id].status # PAID
              /\ SuccessTxOf(transactions, result'.id) = {}
      ]_vars

\* C1 witness: a payment call has just been refused on an order that is Paid
C1_Witness ==
    /\ result.op = "process_payment" /\ result.res = "already_paid"
    /\ result.id \in OrderIds
    /\ orders[result.id].status = PAID
    /\ orders[result.id].total_amount > 0

\* C2: a process_payment call whose tendered amount is below the amount due returns
\* the insufficient-payment failure, keeps the order's status, creates no Invoice
\* and appends exactly one FAILED Transaction carrying the tendered amount and,
\* for a known promo code, the promotion and its discount.
C2_InsufficientLogsFailed ==
    [][ \A x \in PayArgs :
          (ProcessPayment(x[1], x[2], x[3], x[4]) /\ x[1] \in OrderIds
              /\ orders[x[1]].status # PAID /\ x[2] < Required(x[1], x[4]))
          => /\ result' = ResOn("process_payment", "insufficient", x[1])
             /\ orders'[x[1]].status = orders[x[1]].status
             /\ invoices' = invoices
             /\ Len(transactions') = Len(transactions) + 1
             /\ SubSeq(transactions', 1, Len(transactions)) = transactions
             /\ LET tx == transactions'[Len(transactions')]
                IN /\ tx.order = x[1] /\ tx.status = "FAILED" /\ tx.amount = x[2]
                   /\ x[4] \in PromoCodes =>
                        /\ tx.promotion = x[4]
                        /\ tx.discount_amount = apply_promotion(x[4], orders[x[1]].total_amount)
      ]_vars

\* C3: a process_payment call on an order that is not Paid, with a tendered amount
\* that covers the amount due, leaves the order Paid with one new SUCCESS
\* Transaction of the tendered amount and an Invoice whose final_total is
\* original_total - discount_amount >= 0; and in every state an order has an Invoice
\* exactly if it has a SUCCESS Transaction, and then it is Paid.
C3_SuccessWritesAll ==
    [][ /\ \A x \in PayArgs :
             (ProcessPayment(x[1], x[2], x[3], x[4]) /\ x[1] \in OrderIds
                 /\ orders[x[1]].status # PAID /\ x[2] >= Required(x[1], x[4]))
             => /\ result' = ResOn("process_payment", "success", x[1])
                /\ orders'[x[1]].status = PAID
                /\ Len(transactions') = Len(transactions) + 1
                /\ LET tx == transactions'[Len(transactions')]
                   IN tx.order = x[1] /\ tx.status = "SUCCESS" /\ tx.amount = x[2]
                /\ \E inv \in invoices' :
                     /\ inv.order = x[1]
                     /\ inv.original_total = orders[x[1]].total_amount
                     /\ inv.final_total = inv.original_total - inv.discount_amount
                     /\ inv.final_total >= 0
        /\ \A o \in 1..Len(orders') :
             /\ (InvoicesOf(invoices', o) # {}) <=> (SuccessTxOf(transactions', o) # {})
             /\ InvoicesOf(invoices', o) # {} => orders'[o].status = PAID
      ]_vars

\* C4: the order's total_amount equals the sum of total_price over its lines whose
\* status is not Cancelled.
C4_TotalIsNonCancelledSum ==
    \A o \in OrderIds : orders[o].total_amount = TotalNonCancelled(lines, o)

\* C5: the unit_price of an order line never changes while the line exists.
C5_UnitPriceImmutable ==
    [][ \A d \in LineIds \cap DOMAIN lines' : lines'[d].unit_price = lines[d].unit_price ]_vars

\* C5 witness: the only line of the cart has just been incremented by add_to_cart
\* after the item's current price moved away from the line's snapshot
C5_Witness ==
    /\ result = Res("add_to_cart", "ok")
    /\ \E d \in LineIds :
         /\ LineIds = {d}
         /\ lines[d].quantity = 2
         /\ lines[d].unit_price # CurrentPrice(lines[d].item)
         /\ lines[d].total_price = 2 * lines[d].unit_price

\* C6: update_item_status and cancel_item called on a line that is Served or
\* Cancelled leave the line and the status history unchanged.
C6_TerminalRejected ==
    [][ \A d \in LineIds, s \in KitchenStatusChoices, u \in Users :
          ((UpdateItemStatus(d, s, u) \/ CancelItem(d, u))
              /\ lines[d].status \in {SERVED, CANCELLED})
          => (lines' = lines /\ history' = history)
      ]_vars

ForwardSteps == {<<PENDING, COOKING>>, <<COOKING, READY>>, <<READY, SERVED>>}

\* C7: a status change made by update_item_status or cancel_item is either one step
\* forward along Pending, Cooking, Ready, Served, or a move to Cancelled from a
\* status other than Served.
C7_ForwardOnly ==
    [][ \A d \in LineIds, s \in KitchenStatusChoices, u \in Users :
          ((UpdateItemStatus(d, s, u) \/ CancelItem(d, u))
              /\ lines'[d].status # lines[d].status)
          => \/ <<lines[d].status, lines'[d].status>> \in ForwardSteps
             \/ (lines'[d].status = CANCELLED /\ lines[d].status # SERVED)
      ]_vars

\* C8: an update_item_status or cancel_item call that changes a line's status appends
\* exactly one StatusHistory row with the old status, the new status and the acting
\* user; update_item_status with the line's current status changes nothing.
C8_OneRowPerChange ==
    [][ \A d \in LineIds, u \in Users :
          /\ UpdateItemStatus(d, lines[d].status, u)
             => (lines' = lines /\ history' = history)
          /\ (d \in DOMAIN lines' /\ lines'[d].status # lines[d].status
                 /\ (UpdateItemStatus(d, lines'[d].status, u) \/ CancelItem(d, u)))
             => history' = Append(history,
                    [id |-> nextHist, detail |-> d, old_status |-> lines[d].status,
                     new_status |-> lines'[d].status, changed_by |-> u])
      ]_vars

\* C8 witness: after a status change was logged, an update with the line's current
\* status has just returned the line unchanged
C8_Witness ==
    /\ result = Res("update_item_status", "unchanged")
    /\ \E k \in DOMAIN history :
         /\ history[k].old_status # history[k].new_status
         /\ history[k].changed_by = "cashier"
         /\ history[k].detail \in LineIds
         /\ lines[history[k].detail].status = history[k].new_status

\* C9: every StatusHistory row of a state is still there, unmodified, in the next.
C9_HistoryOnlyGrows ==
    [][ \A r \in Range(history) : r \in Range(history') ]_vars

\* C10: a create-order request answered with the unknown-SKU or the unavailable-items
\* error leaves the Order and OrderDetail tables as they were.
C10_RejectedLeavesNoRows ==
    [][ \A r \in PartnerRefs, items \in ApiPayloads :
          (CreateThirdPartyOrder(r, items)
              /\ result'.res \in {"invalid_sku", "unavailable"})
          => (orders' = orders /\ lines' = lines)
      ]_vars

\* C11: there is never more than one Order with the same external_id, and a
\* create-order request whose reference is already stored when it is answered gets
\* the 'Order already exists' answer and changes no Order or OrderDetail row.
C11_IdempotentCreate ==
    [][ /\ \A r \in PartnerRefs :
             Cardinality({o \in 1..Len(orders') : orders'[o].external_id = r}) <= 1
        /\ \A f \in apiInFlight :
             (CreateOrderCommit(f) /\ \E o \in OrderIds : orders[o].external_id = f.partner_ref)
             => /\ result' = Res("create_order", "already_exists")
                /\ orders' = orders /\ lines' = lines
      ]_vars

\* the effect of one logged write on the quantity q
ApplyOp(q, e) == IF e.kind = "set" THEN e.v ELSE q - e.v
\* the logged writes applied to q one after the other in the order p
RECURSIVE ApplyInOrder(_, _, _, _)
ApplyInOrder(q, log, p, k) ==
    IF k > Len(log) THEN q ELSE ApplyInOrder(ApplyOp(q, log[p[k]]), log, p, k + 1)
Perms(n) == {p \in [1..n -> 1..n] : \A a, b \in 1..n : p[a] = p[b] => a = b}
SerialOutcomes == {ApplyInOrder(stock0, invLog, p, 1) : p \in Perms(Len(invLog))}

\* C12: when no deduction and no stock-take submission is in flight, the
\* quantity_on_hand is what the completed deductions and finalizations give when
\* they are applied one after the other in some order.
C12_NoLostUpdate ==
    (deductInFlight = {} /\ takeInFlight = {}) => stock \in SerialOutcomes

C14_CompletedIsFinal ==
    [][ /\ \A k \in DOMAIN tickets :
             /\ tickets'[k].status # tickets[k].status
                => (tickets[k].status = DRAFT /\ tickets'[k].status \in {COMPLETED, "CANCELLED"})
             /\ tickets[k].status = COMPLETED => tickets'[k] = tickets[k]
        /\ \A f \in takeInFlight :
             ((TakeSave(f) \/ TakeFinalize(f)) /\ tickets[f.ticket].status = COMPLETED)
             => stock' = stock
      ]_vars

C16_StatusFollowsStock ==
    [][ Len(invLog') > Len(invLog)
        => \A i \in RecipeItems :
             itemStatus'[i] \in {ACTIVE, OUT_OF_STOCK}
             => (itemStatus'[i] = OUT_OF_STOCK <=> ~Available(stock', i, 1))
      ]_vars

\* C16 witness: the ingredient ran out and was replenished by two stock adjustments,
\* and the item, once out of stock, is Active again
C16_Witness ==
    /\ result = Res("adjust_stock", "ok")
    /\ Len(invLog) = 2
    /\ invLog[1] = [kind |-> "set", v |-> 0]
    /\ invLog[2].kind = "set" /\ invLog[2].v >= RecipeQty
    /\ stock = invLog[2].v
    /\ itemStatus["A"] = ACTIVE

\* C17: a step that changes the quantity_on_hand leaves every Inactive menu item
\* Inactive.
C17_InactiveUntouched ==
    [][ stock' # stock
        => \A i \in Items : itemStatus[i] = INACTIVE => itemStatus'[i] = INACTIVE
      ]_vars

\* the lines of items that have a recipe
RecipeLines == {d \in LineIds : lines[d].item \in RecipeItems}
\* line d was moved to Cooking by the kitchen and is still at or past that stage
MovedToCooking(d) ==
    /\ lines[d].status \in {COOKING, READY, SERVED}
    /\ \E k \in DOMAIN history :
         history[k].detail = d /\ history[k].new_status = COOKING

\* C18: when the only line with a recipe has quantity q, was moved to Cooking by
\* the kitchen and its order is Paid, the ingredient's quantity_on_hand is the
\* initial quantity minus q times the recipe quantity: deducted once, not zero
\* times and not twice.
C18_DeductedOnce ==
    \A d \in LineIds :
        (RecipeLines = {d} /\ MovedToCooking(d) /\ orders[lines[d].order].status = PAID)
        => stock = stock0 - lines[d].quantity * RecipeQty

C20_DiscountWithinTotal ==
    /\ result.op = "payment_quote"
       => /\ 0 <= result.discount
          /\ result.discount <= result.order_total
          /\ result.total_amount >= 0
          /\ result.final_required >= 0
    /\ \A o \in OrderIds : orders[o].total_amount >= 0

\* C20 witness: a fixed discount larger than the order total was capped at the
\* total, leaving nothing due
C20_Witness ==
    /\ result.op = "payment_quote"
    /\ result.promo.discount_type = "FIXED_AMOUNT"
    /\ result.promo.is_valid
    /\ result.promo.discount_value > result.order_total
    /\ result.order_total > 0
    /\ result.discount = result.order_total
    /\ result.final_required = 0

\* C21: a non-cash process_payment call on an unpaid order, tendering at least the
\* amount due, that the gateway rejects returns the gateway failure and leaves
\* the orders, the Transactions and the Invoices as they were, with or without a
\* promo code.
C21_RejectedLeavesState ==
    [][ \A o \in OrderIds, a \in Amounts, c \in PromoCodes \cup {NoPromo} :
          (ProcessPaymentGw(o, a, "CARD", c, FALSE)
              /\ orders[o].status # PAID /\ a >= Required(o, c))
          => /\ result' = ResOn("process_payment", "gateway_rejected", o)
             /\ orders' = orders
             /\ transactions' = transactions
             /\ invoices' = invoices
      ]_vars

\* the most recent StatusHistory row of line d
LastRowOf(d) == history[CHOOSE x \in HistoryIdxOf(d) : \A y \in HistoryIdxOf(d) : y <= x]

C23_TransitionsNotified ==
    [][ \A d \in LineIds \cap DOMAIN lines' :
          lines'[d].status # lines[d].status
          => /\ lines'[d].status = READY
                => sent' = Append(sent, send_ready_signal(lines[d].order, lines[d].item))
             /\ lines'[d].status = CANCELLED
                => /\ Len(sent') = Len(sent) + 1
                   /\ SubSeq(sent', 1, Len(sent)) = sent
                   /\ sent'[Len(sent')].type = "ORDER_CANCELLED"
                   /\ sent'[Len(sent')].order_id = lines[d].order
                   /\ sent'[Len(sent')].reason # NoReason
      ]_vars

\* C24: every order whose status is Paid has an Invoice and a SUCCESS
\* Transaction.
C24_PaidOnlyByPayment ==
    \A o \in OrderIds :
        orders[o].status = PAID
        => /\ InvoicesOf(invoices, o) # {}
           /\ SuccessTxOf(transactions, o) # {}

\* C25: submit_order changes no order other than a Pending order with at least
\* one line, which it sets to Cooking; an order without lines stays as it is.
C25_SubmitNeedsLines ==
    [][ \A t \in Tables :
          SubmitOrder(t)
          => \A o \in OrderIds :
                orders'[o] # orders[o]
                => /\ DetailsOf(lines, o) # {}
                   /\ orders[o].status = PENDING
                   /\ orders'[o] = [orders[o] EXCEPT !.status = COOKING]
      ]_vars

\* C25 witness: submit_order has just refused the table's Pending order, which
\* has no lines
C25_Witness ==
    /\ result = Res("submit_order", "empty_order")
    /\ \E o \in OrderIds :
         /\ orders[o].status = PENDING
         /\ orders[o].table \in Tables
         /\ DetailsOf(lines, o) = {}

\* C26: submit_order issued while the restaurant is closed changes no order.
C26_ClosedRejectsSubmit ==
    [][ \A t \in Tables : (SubmitOrder(t) /\ ~isOpen) => orders' = orders ]_vars

\* C27: a POST of the payment form that carries apply_promo, for a table with an
\* order to pay, is answered with the preview and leaves the orders, the
\* Transactions and the Invoices as they were.
C27_ApplyPromoPreviews ==
    [][ \A t \in Tables, m \in Methods, a \in Amounts, c \in PromoCodes :
          (PaymentFormPost(t, m, a, c, TRUE)
              /\ \E o \in OrderIds : orders[o].table = t /\ orders[o].status = COOKING)
          => /\ result'.res = "preview"
             /\ orders' = orders
             /\ transactions' = transactions
             /\ invoices' = invoices
      ]_vars

\* C28: whatever payment attempts were made with the promo code, an order's
\* total_amount is never below the sum of its line totals minus the discount of
\* the promotion on that sum: the promotion is applied at most once.
C28_PromotionAppliedOnce ==
    \A o \in OrderIds :
        orders[o].total_amount
            >= UpdateTotalValue(lines, o)
               - apply_promotion("SAVE50", UpdateTotalValue(lines, o))

\* C29: the quantity_on_hand of the ingredient is never negative.
C29_StockNeverNegative == stock >= 0

\* C30: every table has at most one order with status Pending.
C30_OnePendingPerTable ==
    \A t \in Tables : Cardinality(PendingOrdersOf(t)) <= 1
====
